---- MODULE Spec2Model ----
(***************************************************************************)
(* Model of tensorflow_datasets/image/uc_merced.py: the UcMerced builder   *)
(* (_info, _split_generators, _generate_examples) and _load_tif, run over  *)
(* a small extracted directory tree.                                       *)
(*                                                                         *)
(* A path is a sequence of components; a component is a record             *)
(* [stem, ext] ("a.tif" is [stem |-> "a", ext |-> "tif"], a directory name *)
(* has ext ""), so that os.path.join, os.path.basename and the "*.tif"     *)
(* pattern are computed rather than assumed.                               *)
(***************************************************************************)
EXTENDS Integers, Sequences, FiniteSets, TLC

\* ------------------------------------------------------------------ bounds

\* Nodes (label-level entries plus files) of the tree under the source path.
MaxNodes == 4

\* Pipeline runs made one after the other over the same tree.
MaxRuns == 2

\* ------------------------------------------------------- module constants

_LABELS ==
  << "agricultural", "airplane", "baseballdiamond", "beach", "buildings",
     "chaparral", "denseresidential", "forest", "freeway", "golfcourse",
     "harbor", "intersection", "mediumresidential", "mobilehomepark",
     "overpass", "parkinglot", "river", "runway", "sparseresidential",
     "storagetanks", "tenniscourt" >>

_ZIP_URL == "http://weegee.vision.ucmerced.edu/datasets/UCMerced_LandUse.zip"

Comp(name) == [stem |-> name, ext |-> ""]

\* "UCMerced_LandUse/Images", as components
_ZIP_SUBDIR == << Comp("UCMerced_LandUse"), Comp("Images") >>

\* UcMerced.VERSION and UcMerced.SUPPORTED_VERSIONS, as (major, minor, patch)
VERSION == << 0, 0, 1 >>

SUPPORTED_VERSIONS == << << 2, 0, 0 >>, << 1, 0, 0 >> >>

\* The versions a builder can be constructed with.
Versions == {VERSION} \cup {SUPPORTED_VERSIONS[i] : i \in DOMAIN SUPPORTED_VERSIONS}

\* self.version.implements(tfds.core.Experiment.S3): VERSION switches the
\* experiment off explicitly, the supported versions 1.0.0 and 2.0.0 are the
\* S3 versions (version history comment).
implements_S3(v) == IF v = VERSION THEN FALSE ELSE TRUE

\* ------------------------------------------------------------ path helpers

\* os.path.join(path, name, ...)
join(path, comps) == path \o comps

\* os.path.basename(filename)
basename(path) == path[Len(path)]

\* The directory part of a path (what glob walks to before matching).
dirname(path) == SubSeq(path, 1, Len(path) - 1)

\* The "*.tif" pattern component of line 113.
TifPattern == [stem |-> "*", ext |-> "tif"]

\* fnmatch of one component against a pattern component with a "*" stem.
matches(comp, pat) == comp.ext = pat.ext

\* ---------------------------------------------------------- the file tree

\* Where the Archive Fetcher extracts the archive.
ExtractedRoot == << Comp("extracted") >>

ImagesDir == join(ExtractedRoot, _ZIP_SUBDIR)

\* Names an entry at the label level can have: two catalog labels, a
\* directory that is no catalog label, and a plain file.
DirNames == {"agricultural", "beach", "junk"}

PlainNames == {"README"}

\* "ok" decodes; "notimage" is rejected by PIL's Image.open; "truncated" has a
\* readable header and fails when its pixels are loaded.
Kinds == {"ok", "notimage", "truncated"}

TifStems == {"a", "b"}

\* The files a folder can hold: a.tif and b.tif in every kind, and an image
\* the "*.tif" filter does not match.
FileChoices ==
  {[name |-> [stem |-> s, ext |-> "tif"], kind |-> k] : s \in TifStems, k \in Kinds}
    \cup {[name |-> [stem |-> "c", ext |-> "jpg"], kind |-> "ok"]}

RECURSIVE FileSeqs(_, _)
\* Listings of at most n files with distinct names not in `used`.
FileSeqs(n, used) ==
  IF n <= 0 THEN {<< >>}
  ELSE {<< >>} \cup
       UNION {{<< f >> \o rest : rest \in FileSeqs(n - 1, used \cup {f.name})} :
              f \in {g \in FileChoices : g.name \notin used}}

EntryChoices(budget) ==
  {[name |-> d, isDir |-> TRUE, files |-> fs] :
     d \in DirNames, fs \in FileSeqs(budget - 1, {})}
    \cup {[name |-> p, isDir |-> FALSE, files |-> << >>] : p \in PlainNames}

RECURSIVE EntrySeqs(_, _)
\* Listings of entries with distinct names not in `used`, of at most `budget`
\* nodes in all.
EntrySeqs(used, budget) ==
  IF budget <= 0 THEN {<< >>}
  ELSE {<< >>} \cup
       UNION {{<< e >> \o rest :
                 rest \in EntrySeqs(used \cup {e.name}, budget - 1 - Len(e.files))} :
              e \in {x \in EntryChoices(budget) : x.name \notin used}}

\* The extracted trees: the source path missing, or present with its entries
\* in the order the filesystem enumerates them.
Trees ==
  {[exists |-> FALSE, entries |-> << >>]}
    \cup {[exists |-> TRUE, entries |-> es] : es \in EntrySeqs({}, MaxNodes)}

\* ------------------------------------------------------------------- state

VARIABLES
  fs,        \* the extracted tree (unchanged by the program)
  run,       \* number of the pipeline run under way
  version,   \* self.version of the builder of this run
  phase,     \* FETCHING, PLANNING, GENERATING, COMPLETE or FAILED
  fetches,   \* calls of dl_manager.download_and_extract in this run
  dl_path,   \* the local `path` of _split_generators (empty while unbound)
  splits,    \* the SplitGenerators _split_generators returned
  pc,        \* where the generator _generate_examples stands
  labels,    \* the result of listdir(path) being iterated
  li,        \* position of the outer for loop in labels
  files,     \* the result of glob(...) being iterated
  fi,        \* position of the inner for loop in files
  fp,        \* the GFile of _load_tif: "none", "open" or "closed"
  image,     \* the local `image` of _load_tif / _generate_examples
  out,       \* what the run's consumer has received, in order
  err,       \* the exception that ended the run, or "none"
  prev       \* phase, out and err of the run before this one

vars ==
  << fs, run, version, phase, fetches, dl_path, splits, pc, labels, li, files,
     fi, fp, image, out, err, prev >>

NoImage == [state |-> "none", of |-> << >>]

NoPrev == [phase |-> "NONE", out |-> << >>, err |-> "none"]

NoKey == [stem |-> "", ext |-> ""]

\* ------------------------------------------------- filesystem collaborators

\* A listing that reports a missing directory as an empty one.
listdir_lenient(path) ==
  [ok |-> TRUE,
   names |-> IF fs.exists /\ path = ImagesDir
               THEN [i \in 1..Len(fs.entries) |-> fs.entries[i].name]
               ELSE << >>]

\* tf.io.gfile.listdir(path): the names under path in enumeration order, or
\* a NotFoundError when path is no directory.
listdir(path) ==
  IF fs.exists /\ path = ImagesDir
    THEN [ok |-> TRUE,
          names |-> [i \in 1..Len(fs.entries) |-> fs.entries[i].name]]
    ELSE [ok |-> FALSE, names |-> << >>]

\* The files of the directory `dir`, in enumeration order (empty when dir is
\* missing or is no directory).
filesOf(dir) ==
  LET hit == {i \in 1..Len(fs.entries) :
                /\ fs.exists
                /\ fs.entries[i].isDir
                /\ Len(dir) > 0
                /\ dirname(dir) = ImagesDir
                /\ basename(dir) = Comp(fs.entries[i].name)}
  IN IF hit = {} THEN << >> ELSE fs.entries[CHOOSE i \in hit : TRUE].files

\* A glob that returns every file of the directory, whatever its extension.
glob_unfiltered(pattern) ==
  LET dir == dirname(pattern)
      all == filesOf(dir)
  IN [i \in 1..Len(all) |-> join(dir, << all[i].name >>)]

\* A glob that returns its matches last first.
glob_reversed(pattern) ==
  LET dir == dirname(pattern)
      Match(f) == matches(f.name, basename(pattern))
      sel == SelectSeq(filesOf(dir), Match)
  IN [i \in 1..Len(sel) |-> join(dir, << sel[Len(sel) + 1 - i].name >>)]

\* tf.io.gfile.glob(pattern): the paths matching the pattern, in match order;
\* nothing matches under a missing directory or a plain file (no error).
glob(pattern) ==
  LET dir == dirname(pattern)
      Match(f) == matches(f.name, basename(pattern))
      sel == SelectSeq(filesOf(dir), Match)
  IN [i \in 1..Len(sel) |-> join(dir, << sel[i].name >>)]

\* The kind of the file at `path`.
kindOf(path) ==
  LET all == filesOf(dirname(path))
      hit == {i \in 1..Len(all) : all[i].name = basename(path)}
  IN all[CHOOSE i \in hit : TRUE].kind

\* ------------------------------------------------------ framework (tfds.core)

\* Label Catalog index_of(name): the position of name in the catalog.
index_of(name) == (CHOOSE i \in DOMAIN _LABELS : _LABELS[i] = name) - 1

known_label(name) == \E i \in DOMAIN _LABELS : _LABELS[i] = name

\* The FeaturesDict of _info applied to a yielded record: ClassLabel turns
\* the label name into its catalog index, image and filename pass through.
encode_example(record) ==
  [image |-> record.image, label |-> index_of(record.label),
   filename |-> record.filename]

\* ------------------------------------------------- _generate_examples pieces

\* A record labelled with the first catalog name instead of its folder's.
record_first_label(img, label, filename) ==
  [image |-> img, label |-> _LABELS[1], filename |-> basename(filename)]

\* Lines 115-120: filename = os.path.basename(filename); record = {...}
make_record(img, label, filename) ==
  [image |-> img, label |-> label, filename |-> basename(filename)]

\* The version test inverted.
yielded_inverted(record) ==
  IF ~implements_S3(version)
    THEN [keyed |-> TRUE, key |-> record.filename, record |-> record]
    ELSE [keyed |-> FALSE, key |-> NoKey, record |-> record]

\* Lines 121-124: what the generator yields for a record.
yielded(record) ==
  IF implements_S3(version)
    THEN [keyed |-> TRUE, key |-> record.filename, record |-> record]
    ELSE [keyed |-> FALSE, key |-> NoKey, record |-> record]

\* np.array(image): the pixel array of the file at `path`.
pixels(path) == [state |-> "array", of |-> path]

\* --------------------------------------------------------------------- Init

Init ==
  /\ fs \in Trees
  /\ run = 1
  /\ version \in Versions
  /\ phase = "FETCHING"
  /\ fetches = 0
  /\ dl_path = << >>
  /\ splits = << >>
  /\ pc = "idle"
  /\ labels = << >>
  /\ li = 0
  /\ files = << >>
  /\ fi = 0
  /\ fp = "none"
  /\ image = NoImage
  /\ out = << >>
  /\ err = "none"
  /\ prev = NoPrev

\* An exception leaves the generator (nothing catches it) and fails the run.
Raise(e) ==
  /\ err' = e
  /\ phase' = "FAILED"
  /\ pc' = "raised"

\* A file that failed to decode skipped, and the loop going on.
decode_skipped ==
  /\ fi' = fi + 1
  /\ pc' = "for_file"
  /\ UNCHANGED << err, phase >>

\* Lines 113-114: _load_tif is called with no handler around it, so what it
\* raises ends the generator at the file being loaded.
decode_failed ==
  /\ Raise("ImageDecodeError")
  /\ UNCHANGED fi

\* ------------------------------------------------------------------ actions

\* A fetch whose failure is swallowed: planning goes on without an archive.
Fetch_swallowing ==
  /\ phase = "FETCHING"
  /\ fetches' = fetches + 1
  /\ phase' = "PLANNING"
  /\ dl_path' = ExtractedRoot
  /\ \E ok \in BOOLEAN : err' = IF ok THEN err ELSE "FetchError"
  /\ UNCHANGED << fs, run, version, splits, pc, labels, li, files, fi, fp, image, out, prev >>

\* _split_generators, line 101: dl_manager.download_and_extract(_ZIP_URL)
\* returns the extraction root or raises.
Fetch ==
  /\ phase = "FETCHING"
  /\ fetches' = fetches + 1
  /\ \E ok \in BOOLEAN :
       IF ok
         THEN /\ phase' = "PLANNING"
              /\ dl_path' = ExtractedRoot
              /\ UNCHANGED << err, pc >>
         ELSE /\ phase' = "FAILED"
              /\ err' = "FetchError"
              /\ UNCHANGED << dl_path, pc >>
  /\ UNCHANGED << fs, run, version, splits, labels, li, files, fi, fp, image, out, prev >>

\* _split_generators, lines 102-108: one SplitGenerator, TRAIN, one shard,
\* over the extracted root joined with _ZIP_SUBDIR.
Plan ==
  /\ phase = "PLANNING"
  /\ splits' = << [name |-> "train", num_shards |-> 1,
                   path |-> join(dl_path, _ZIP_SUBDIR)] >>
  /\ phase' = "GENERATING"
  /\ pc' = "listdir"
  /\ UNCHANGED << fs, run, version, fetches, dl_path, labels, li, files, fi, fp,
                  image, out, err, prev >>

\* Line 112, entering the outer loop: tf.io.gfile.listdir(path).
ListDir ==
  /\ phase = "GENERATING" /\ pc = "listdir"
  /\ LET r == listdir(splits[1].path)
     IN IF r.ok
          THEN /\ labels' = r.names
               /\ li' = 1
               /\ pc' = "for_label"
               /\ UNCHANGED << err, phase >>
          ELSE /\ Raise("NotFoundError")
               /\ UNCHANGED << labels, li >>
  /\ UNCHANGED << fs, run, version, fetches, dl_path, splits, files, fi, fp, image, out, prev >>

\* Lines 112-113: the next label, and the glob of its "*.tif" files; with no
\* label left the generator is exhausted and the run is complete.
ForLabel ==
  /\ phase = "GENERATING" /\ pc = "for_label"
  /\ IF li > Len(labels)
       THEN /\ pc' = "exhausted"
            /\ phase' = "COMPLETE"
            /\ labels' = << >>
            /\ li' = 0
            /\ UNCHANGED << files, fi >>
       ELSE /\ files' = glob(join(splits[1].path, << Comp(labels[li]), TifPattern >>))
            /\ fi' = 1
            /\ pc' = "for_file"
            /\ UNCHANGED << phase, labels, li >>
  /\ UNCHANGED << fs, run, version, fetches, dl_path, splits, fp, image, out, err, prev >>

\* Line 113, the inner loop: the next matched file enters _load_tif, whose
\* line 128 opens it; with no file left the outer loop goes on.
ForFile ==
  /\ phase = "GENERATING" /\ pc = "for_file"
  /\ IF fi > Len(files)
       THEN /\ li' = li + 1
            /\ files' = << >>
            /\ fi' = 0
            /\ pc' = "for_label"
            /\ UNCHANGED fp
       ELSE /\ fp' = "open"
            /\ pc' = "pil_open"
            /\ UNCHANGED << li, files, fi >>
  /\ UNCHANGED << fs, run, version, phase, fetches, dl_path, splits, labels, image, out,
                  err, prev >>

\* _load_tif, line 129 and the end of the with block: PIL's Image.open reads
\* the header (it rejects a file that is no image) and the with block closes
\* the file, on return and on the exception alike.
PilOpen ==
  /\ phase = "GENERATING" /\ pc = "pil_open"
  /\ fp' = "closed"
  /\ IF kindOf(files[fi]) = "notimage"
       THEN /\ decode_failed
            /\ UNCHANGED image
       ELSE /\ image' = [state |-> "lazy", of |-> files[fi]]
            /\ pc' = "np_array"
            /\ UNCHANGED << err, phase, fi >>
  /\ UNCHANGED << fs, run, version, fetches, dl_path, splits, labels, li, files, out, prev >>

\* _load_tif, line 130: np.array(image) loads the pixels, after the with
\* block; a truncated file fails here.
NpArray ==
  /\ phase = "GENERATING" /\ pc = "np_array"
  /\ IF kindOf(image.of) = "truncated"
       THEN /\ decode_failed
            /\ image' = NoImage
       ELSE /\ image' = pixels(image.of)
            /\ pc' = "yield"
            /\ UNCHANGED << err, phase, fi >>
  /\ UNCHANGED << fs, run, version, fetches, dl_path, splits, labels, li, files, fp, out, prev >>

\* Lines 115-124: the record is built and yielded; the consumer encodes it
\* with the features of _info, which fails on a label outside the catalog.
Yield ==
  /\ phase = "GENERATING" /\ pc = "yield"
  /\ LET item == yielded(make_record(image, labels[li], files[fi]))
     IN IF known_label(item.record.label)
          THEN /\ out' = Append(out, [item EXCEPT !.record = encode_example(item.record)])
               /\ fi' = fi + 1
               /\ pc' = "for_file"
               /\ UNCHANGED << err, phase >>
          ELSE /\ Raise("UnknownLabelError")
               /\ UNCHANGED << out, fi >>
  /\ image' = NoImage
  /\ fp' = "none"
  /\ UNCHANGED << fs, run, version, fetches, dl_path, splits, labels, li, files, prev >>

\* A pipeline run that starts with what the run before it had received.
RunAgain_carrying ==
  /\ phase \in {"COMPLETE", "FAILED"}
  /\ run < MaxRuns
  /\ run' = run + 1
  /\ prev' = [phase |-> phase, out |-> out, err |-> err]
  /\ version' \in Versions
  /\ phase' = "FETCHING"
  /\ fetches' = 0
  /\ dl_path' = << >>
  /\ splits' = << >>
  /\ pc' = "idle"
  /\ labels' = << >>
  /\ li' = 0
  /\ files' = << >>
  /\ fi' = 0
  /\ fp' = "none"
  /\ image' = NoImage
  /\ err' = "none"
  /\ UNCHANGED << fs, out >>

\* Another builder, of any version, runs the pipeline again over the
\* unchanged tree: _split_generators and _generate_examples keep nothing
\* between calls, every name they use is a local of the call.
RunAgain ==
  /\ phase \in {"COMPLETE", "FAILED"}
  /\ run < MaxRuns
  /\ run' = run + 1
  /\ prev' = [phase |-> phase, out |-> out, err |-> err]
  /\ version' \in Versions
  /\ phase' = "FETCHING"
  /\ fetches' = 0
  /\ dl_path' = << >>
  /\ splits' = << >>
  /\ pc' = "idle"
  /\ labels' = << >>
  /\ li' = 0
  /\ files' = << >>
  /\ fi' = 0
  /\ fp' = "none"
  /\ image' = NoImage
  /\ out' = << >>
  /\ err' = "none"
  /\ UNCHANGED fs

Next ==
  \/ Fetch
  \/ Plan
  \/ ListDir
  \/ ForLabel
  \/ ForFile
  \/ PilOpen
  \/ NpArray
  \/ Yield
  \/ RunAgain

Spec == Init /\ [][Next]_vars

\* The pipeline's own steps: a synchronous, single-threaded run goes on to
\* its end once started (the consumer pulls the generator until it is
\* exhausted or raises). Whether a run is made again is the caller's choice.
Step ==
  \/ Fetch
  \/ Plan
  \/ ListDir
  \/ ForLabel
  \/ ForFile
  \/ PilOpen
  \/ NpArray
  \/ Yield

FairSpec == Spec /\ WF_vars(Step)

\* ------------------------------------------------------------ properties

RECURSIVE Matched(_)
\* The (folder, file) pairs of the files a folder-by-folder walk with the
\* "*.tif" filter finds: folders in listing order, files in listing order.
Matched(entries) ==
  IF entries = << >> THEN << >>
  ELSE LET e == Head(entries)
           IsTif(f) == f.name.ext = "tif"
           tifs == IF e.isDir THEN SelectSeq(e.files, IsTif) ELSE << >>
       IN [i \in 1..Len(tifs) |-> [label |-> e.name, file |-> tifs[i]]]
            \o Matched(Tail(entries))

Exp == Matched(fs.entries)

RECURSIVE SumK(_)
\* The sum over the label folders of their number of "*.tif" files.
SumK(entries) ==
  IF entries = << >> THEN 0
  ELSE Cardinality({j \in 1..Len(Head(entries).files) :
                      Head(entries).isDir /\ Head(entries).files[j].name.ext = "tif"})
         + SumK(Tail(entries))

Terminal == phase \in {"COMPLETE", "FAILED"}

\* The records of a sequence of received items, keys dropped.
Records(items) == [n \in 1..Len(items) |-> items[n].record]

\* The (filename, label) pair of each received item.
Pairs(items) == [n \in 1..Len(items) |-> << items[n].record.filename, items[n].record.label >>]

Count(seq, x) == Cardinality({n \in 1..Len(seq) : seq[n] = x})

Range(seq) == {seq[n] : n \in 1..Len(seq)}

IsPrefix(a, b) == Len(a) <= Len(b) /\ \A n \in 1..Len(a) : a[n] = b[n]

\* C1: a complete run of the Record Generator yields exactly the sum of the
\* k_i records (k_i the "*.tif" files of folder i), and the n-th record
\* carries the catalog index of the folder holding its file (and that file's
\* base name); files the filter does not match yield nothing.
C1_CountAndLabels ==
  phase = "COMPLETE" =>
    /\ Len(out) = SumK(fs.entries)
    /\ Len(out) = Len(Exp)
    /\ \A n \in DOMAIN out :
         /\ out[n].record.label \in 0..(Len(_LABELS) - 1)
         /\ _LABELS[out[n].record.label + 1] = Exp[n].label
         /\ out[n].record.filename = Exp[n].file.name

\* Witness of C1: a complete run over two label folders with a record of
\* each.
C1_Witness ==
  /\ phase = "COMPLETE"
  /\ Len(out) >= 2
  /\ out[1].record.label # out[Len(out)].record.label

\* C2 (as claimed): under the keyed version no two items of one run carry
\* the same key, also when files of different label folders share a base name.
C2_KeysUnique ==
  \A i, j \in DOMAIN out :
    (i # j /\ out[i].keyed /\ out[j].keyed) => out[i].key # out[j].key

\* The version threshold of the keyed scheme.
Threshold == << 1, 0, 0 >>

VersionAtLeast(v, t) ==
  \/ v[1] > t[1]
  \/ v[1] = t[1] /\ v[2] > t[2]
  \/ v[1] = t[1] /\ v[2] = t[2] /\ v[3] >= t[3]

\* C3: a version at or above the threshold yields (filename key, record), a
\* version below it yields the record with no key; a run over the same tree
\* as the run before it emits the same records in the same order whatever the
\* two versions are (the fetch aside, which is no part of the generator).
C3_VersionSwitch ==
  /\ \A n \in DOMAIN out :
       /\ out[n].keyed = VersionAtLeast(version, Threshold)
       /\ out[n].keyed => out[n].key = out[n].record.filename
       /\ ~out[n].keyed => out[n].key = NoKey
  /\ (prev.phase # "NONE" /\ prev.err # "FetchError") =>
       /\ IsPrefix(Records(out), Records(prev.out))
       /\ (Terminal /\ err # "FetchError") => Records(out) = Records(prev.out)

\* Witness of C3: a keyed and an unkeyed run over the same tree, both
\* complete, with two records or more.
C3_Witness ==
  /\ phase = "COMPLETE"
  /\ prev.phase = "COMPLETE"
  /\ Len(out) >= 2
  /\ Len(prev.out) >= 2
  /\ out[1].keyed # prev.out[1].keyed

\* C4: decode failure is fail-fast: no record is ever received for a file
\* that does not decode nor for any file after it, a run does not complete
\* over such a file, and a run ended by ImageDecodeError stands at the first
\* such file with exactly the records of the files before it received.
C4_FailFast ==
  /\ \A k \in DOMAIN Exp : Exp[k].file.kind # "ok" => Len(out) < k
  /\ phase = "COMPLETE" => \A k \in DOMAIN Exp : Exp[k].file.kind = "ok"
  /\ err = "ImageDecodeError" =>
       /\ phase = "FAILED"
       /\ pc = "raised"
       /\ Len(out) < Len(Exp)
       /\ LET k == Len(out) + 1
          IN /\ Exp[k].file.kind # "ok"
             /\ files[fi] = join(ImagesDir, << Comp(Exp[k].label), Exp[k].file.name >>)
             /\ \A n \in 1..(k - 1) :
                  /\ Exp[n].file.kind = "ok"
                  /\ out[n].record.filename = Exp[n].file.name
                  /\ _LABELS[out[n].record.label + 1] = Exp[n].label

\* Witness of C4: a run ended by ImageDecodeError at a file with a decodable
\* matched file after it.
C4_Witness ==
  /\ err = "ImageDecodeError"
  /\ Len(Exp) > Len(out) + 1
  /\ Exp[Len(out) + 2].file.kind = "ok"

\* C5 (as claimed): with a directory at the label level whose name is not in
\* the Label Catalog, generation fails (it does not complete).
C5_UnknownLabelFails ==
  phase = "COMPLETE" =>
    \A i \in DOMAIN fs.entries :
      fs.entries[i].isDir => known_label(fs.entries[i].name)

\* C5 (amended): no received record has a label outside the catalog; a run
\* completes over a directory that is no catalog label only when that
\* directory holds no "*.tif" file; a run ended by UnknownLabelError stands at
\* the first matched file of such a directory, that file decoded.
C5_UnknownLabelAtFirstFile ==
  /\ \A n \in DOMAIN out : out[n].record.label \in 0..(Len(_LABELS) - 1)
  /\ phase = "COMPLETE" =>
       \A k \in DOMAIN Exp : known_label(Exp[k].label)
  /\ err = "UnknownLabelError" =>
       /\ phase = "FAILED"
       /\ ~known_label(labels[li])
       /\ fi = 1
       /\ kindOf(files[fi]) = "ok"
       /\ Len(out) < Len(Exp)
       /\ Exp[Len(out) + 1].label = labels[li]

\* Witness of C5: a run ended by UnknownLabelError after a record of a
\* catalog folder was received.
C5_Witness ==
  /\ err = "UnknownLabelError"
  /\ Len(out) >= 1

PhaseEdges ==
  { << "FETCHING", "PLANNING" >>, << "FETCHING", "FAILED" >>,
    << "PLANNING", "GENERATING" >>, << "PLANNING", "FAILED" >>,
    << "GENERATING", "COMPLETE" >>, << "GENERATING", "FAILED" >> }

C7_PhaseInv ==
  /\ phase \in {"FETCHING", "PLANNING", "GENERATING", "COMPLETE", "FAILED"}
  /\ fetches = (IF phase = "FETCHING" THEN 0 ELSE 1)
  /\ phase \in {"FETCHING", "PLANNING"} => (pc = "idle" /\ out = << >>)
  /\ phase = "FETCHING" => (dl_path = << >> /\ splits = << >>)
  /\ phase = "GENERATING" => (Len(splits) = 1 /\ pc \notin {"idle", "exhausted", "raised"})
  /\ phase = "COMPLETE" <=> pc = "exhausted"
  /\ phase = "FAILED" <=> err # "none"
  /\ err = "FetchError" => (dl_path = << >> /\ splits = << >> /\ out = << >> /\ pc = "idle")

C7_PhaseStep ==
  run' = run =>
    /\ phase' = phase \/ << phase, phase' >> \in PhaseEdges
    /\ fetches' >= fetches
    /\ Terminal => UNCHANGED vars

\* C7: within a run the phases follow FETCHING -> PLANNING -> GENERATING in
\* that order, none re-entered; the Archive Fetcher is called exactly once;
\* every run ends in COMPLETE (the generator exhausted) or in FAILED (an
\* exception), and a failed fetch leaves no split planned and no record
\* generated.
C7_Phases ==
  /\ []C7_PhaseInv
  /\ [][C7_PhaseStep]_vars
  /\ []<>Terminal

\* Witness of C7: a run failed in FETCHING after a run that completed with
\* records.
C7_Witness ==
  /\ err = "FetchError"
  /\ phase = "FAILED"
  /\ prev.phase = "COMPLETE"
  /\ Len(prev.out) >= 1

\* C8: the Record Generator is restartable and idempotent: a run starts with
\* nothing of the run before it, every invocation ends, and two ended
\* invocations of the generator over the unchanged tree end the same way with
\* the same multiset of (filename, label) pairs.
C8_Inv ==
  /\ phase = "FETCHING" =>
       /\ out = << >> /\ labels = << >> /\ files = << >>
       /\ li = 0 /\ fi = 0 /\ pc = "idle" /\ image = NoImage /\ err = "none"
  /\ (prev.phase # "NONE" /\ prev.err # "FetchError" /\ Terminal /\ err # "FetchError") =>
       /\ phase = prev.phase
       /\ err = prev.err
       /\ \A x \in Range(Pairs(out)) \cup Range(Pairs(prev.out)) :
            Count(Pairs(out), x) = Count(Pairs(prev.out), x)

C9_ScopedDecode ==
  /\ pc \in {"pil_open", "np_array"} => fp = "open"
  /\ pc \notin {"pil_open", "np_array"} => fp # "open"

\* The place of a received record in the tree: its folder's place in the
\* listing of the source path, and its file's place in the folder's listing.
EntryPos(item) ==
  CHOOSE i \in DOMAIN fs.entries :
    fs.entries[i].isDir /\ fs.entries[i].name = _LABELS[item.record.label + 1]

FilePos(item) ==
  CHOOSE j \in DOMAIN fs.entries[EntryPos(item)].files :
    fs.entries[EntryPos(item)].files[j].name = item.record.filename

\* C10: records are received in label enumeration order and, within a label,
\* in file listing order: of two records the earlier one is of a folder
\* listed earlier, or of the same folder and of a file listed earlier.
C10_Order ==
  \A m, n \in DOMAIN out :
    m < n =>
      \/ EntryPos(out[m]) < EntryPos(out[n])
      \/ EntryPos(out[m]) = EntryPos(out[n]) /\ FilePos(out[m]) < FilePos(out[n])

\* Witness of C10: a complete run whose folders are listed against the
\* catalog order and whose files are listed against the name order.
C10_Witness ==
  /\ phase = "COMPLETE"
  /\ Len(out) >= 2
  /\ \/ out[1].record.label > out[Len(out)].record.label
     \/ /\ out[1].record.label = out[2].record.label
        /\ out[1].record.filename.stem = "b"

====
